---- MODULE Spec2Model ----
(***************************************************************************)
(* A model of restocks_client: RestocksClient (client.py), Product         *)
(* (product.py) and the helpers (utils/helpers.py, utils/proxy_handler.py).*)
(*                                                                         *)
(* The program is single threaded: one call runs at a time.  A call that   *)
(* talks to the marketplace once or a fixed number of times is one action  *)
(* whose server answers are drawn with \E; a paginated call is a frame     *)
(* (the call's locals) advanced by one action per HTTP exchange, so that   *)
(* the server answers each page when it is asked.  Every request a call    *)
(* issues is appended to log, in the order the code issues it.             *)
(***************************************************************************)
EXTENDS Integers, Sequences, FiniteSets, TLC

\* ------------------------------------------------------------------ bounds
MaxPages == 2      \* largest meta.last_page the server reports

\* ------------------------------------------------------------ value domains
None == "None"                         \* Python's None in a string-valued slot
Statuses == {200, 401, 404, 500}       \* HTTP status codes the server answers
Truthy(s) == s \notin {None, ""}       \* bool(s) of a str-or-None value

\* SellMethod (filters.py)
Consign == "consignment"
Resell == "resale"
SellMethod == {Consign, Resell}

\* Python's range(a, b)
range(a, b) == a .. (b - 1)

\* An image URL is the sequence of its "/"-separated segments.
ImgProducts(seg) == <<"https:", "", "cdn", "products", seg, "y.jpg">>
ImgPlain == <<"https:", "", "cdn", "y.jpg">>

\* The raw items (listings, sales) the server can place on a page: the JSON
\* fields the mapping reads.  ship_before is <<dd, mm, yy>> (the text "dd/mm/yy"),
\* or <<>> when the key is absent or null.
Item1 ==
  [id |-> 1, baseproduct |-> [id |-> 11, image_url |-> ImgProducts("AB1")],
   ship_before |-> <<5, 11, 23>>, action |-> [link |-> "label1"]]
Item2 ==
  [id |-> 2, baseproduct |-> [id |-> 12, image_url |-> ImgPlain],
   ship_before |-> <<6, 11, 23>>, action |-> [link |-> "label2"]]
Item3 ==
  [id |-> 3, baseproduct |-> [id |-> 13, image_url |-> ImgProducts("AB3")],
   ship_before |-> <<>>, action |-> [link |-> None]]
Item4 ==
  [id |-> 4, baseproduct |-> [id |-> 14, image_url |-> ImgPlain],
   ship_before |-> <<>>, action |-> [link |-> None]]

\* The data arrays a page can carry.
PageData == { <<>>, <<Item1>>, <<Item2, Item3>>, <<Item4>> }

\* What the server answers to a page request.  The body of a non-200 answer is
\* never read, so it is left empty.
PageResponses ==
  { [status |-> 200, last_page |-> n, data |-> d] : n \in 0 .. MaxPages, d \in PageData }
  \cup { [status |-> s, last_page |-> 0, data |-> <<>>] : s \in Statuses \ {200} }

\* What the catalog answers to /shop/catalog/products?ids=: its data array.
LookupResponses == { <<>>, <<[sku |-> "CAT9"]>> }

Clients == {"c1", "c2"}

VARIABLES
  clients,          \* each constructed client's email, password, proxy_list
  DEFAULT_HEADERS,  \* utils.defaults.DEFAULT_HEADERS: the dict every client's
                    \* self.headers refers to (client.py:37 assigns, never copies)
  frame,            \* the running (or last finished) call and its locals
  log,              \* the requests the running (or last) call has issued, in order
  result,           \* how the last call ended
  files,            \* the label files download_label has written
  login_ok          \* history: the clients whose login has returned True

vars == <<clients, DEFAULT_HEADERS, frame, log, result, files, login_ok>>

\* self.headers of a client: __init__ binds it to the one DEFAULT_HEADERS dict.
headers(self) == DEFAULT_HEADERS

\* ------------------------------------------------------- proxy_handler.py
\* get_random_proxy: the proxies random.choice may return; {None} for no list.
get_random_proxy(proxy_list) ==
  IF proxy_list = None THEN {None}
  ELSE {proxy_list[i] : i \in 1 .. Len(proxy_list)}

\* ---------------------------------------------------------------- results
NoExc == [type |-> None, msg |-> None, status |-> 0]
NoResult == [kind |-> "none", value |-> None, exc |-> NoExc]
Return(v) == [kind |-> "return", value |-> v, exc |-> NoExc]
Raise(type, msg, status) ==
  [kind |-> "raise", value |-> None, exc |-> [type |-> type, msg |-> msg, status |-> status]]

\* ---------------------------------------------------------------- requests
\* A log entry: one request (json is the body it sends) and the status the
\* server answered it with.  expect is the status _validate_response is given
\* for it (0: not validated); last_page is the meta.last_page the answer
\* reports where the code reads it (page 1), data the data array it carries.
Req(h) ==
  [method |-> "GET", path |-> "", sell_method |-> None, id |-> -1, page |-> 0,
   status |-> 0, expect |-> 0, proxies |-> None, self |-> None,
   headers |-> h, last_page |-> 0, data |-> <<>>, json |-> <<>>]
BaseReq == Req(DEFAULT_HEADERS)

Idle ==
  [op |-> "idle", pc |-> "idle", self |-> None, args |-> <<>>, sell_method |-> None,
   phase |-> None, page |-> 0, total_pages |-> 0, country_response |-> <<>>,
   all_data |-> <<>>, current_sales_data |-> <<>>, i |-> 0, out |-> <<>>]

CanCall == frame.pc \in {"idle", "done"}

\* ------------------------------------------------------------- helpers.py
\* parse_int: the first digit run of str(n) with "." removed; on an integer
\* that is its magnitude.
parse_int(n) == IF n < 0 THEN -n ELSE n

\* _image_to_sku: re.findall('/products/(.*?)/', image)[0].  A match is a
\* segment "products" with a "/" before it, a segment after it and a "/" after
\* that one.  <<sku>> for the first match, <<>> for IndexError.
_image_to_sku(image) ==
  LET hits == {i \in 2 .. (Len(image) - 2) : image[i] = "products"}
  IN  IF hits = {} THEN <<>>
      ELSE <<image[(CHOOSE i \in hits : \A j \in hits : i <= j) + 1]>>

\* -------------------------------------------------------------- product.py
\* Shipping._from_json: strptime(ship_before, "%d/%m/%y").
Shipping_from_json(data) ==
  [label_url |-> data.label_url,
   ship_before |-> [day |-> data.ship_before[1], month |-> data.ship_before[2],
                    year |-> IF data.ship_before[3] < 69
                             THEN 2000 + data.ship_before[3]
                             ELSE 1900 + data.ship_before[3]]]

\* Product._from_json, for the fields the model keeps.  data.sku is non-empty
\* here (every sku the model's server and image URLs yield is), so the
\* get_sku fallback of product.py:64 is not taken.  An optional value is
\* <<>> for None (or a missing key) and <<v>> for v.
Product_from_json(data) ==
  [sku |-> data.sku,
   id |-> parse_int(data.id),
   listing_id |-> IF data.listing_id # <<>> /\ data.listing_id[1] # 0
                  THEN <<parse_int(data.listing_id[1])>> ELSE <<>>,
   shipping |-> IF data.shipping # <<>> THEN <<Shipping_from_json(data.shipping[1])>> ELSE <<>>]

\* ---------------------------------------------------------------- client.py
\* The statuses the server may answer a profile probe with, should one follow
\* a response of this status (a probe only ever follows a 401 or a 404; for
\* the other statuses one value stands for all).
Probes(status) == IF status \in {401, 404} THEN Statuses ELSE {200}

\* The request check_login issues, answered with status.
ProfileRequest(self, h, proxy, status) ==
  [Req(h) EXCEPT !.path = "/shop/account/profile", !.status = status,
                  !.proxies = proxy, !.self = self]

\* check_login: True iff the profile probe is answered 200.
check_login(self, h, proxy, status) ==
  [value |-> (status = 200), reqs |-> <<ProfileRequest(self, h, proxy, status)>>]

\* (a mutant of _validate_response: a 404 is not taken for a lost session)
_validate_response_401(self, h, status, status_code, probe, pproxy) ==
  IF status = status_code
  THEN [ok |-> TRUE, reqs |-> <<>>, raised |-> NoResult]
  ELSE IF status \in {401}
       THEN LET c == check_login(self, h, pproxy, probe)
            IN  [ok |-> FALSE, reqs |-> c.reqs,
                 raised |-> IF ~c.value
                            THEN Raise("LoginException", "not logged in", 0)
                            ELSE Raise("RequestException", "Request failed", status)]
       ELSE [ok |-> FALSE, reqs |-> <<>>,
             raised |-> Raise("RequestException", "Request failed", status)]

\* _validate_response(response, status_code): the response is returned when
\* its status is the expected one; a 404 or 401 is followed by check_login
\* (probe is the status its request is answered with).  h is self.headers
\* when it runs.
_validate_response(self, h, status, status_code, probe, pproxy) ==
  IF status = status_code
  THEN [ok |-> TRUE, reqs |-> <<>>, raised |-> NoResult]
  ELSE IF status \in {404, 401}
       THEN LET c == check_login(self, h, pproxy, probe)
            IN  [ok |-> FALSE, reqs |-> c.reqs,
                 raised |-> IF ~c.value
                            THEN Raise("LoginException", "not logged in", 0)
                            ELSE Raise("RequestException", "Request failed", status)]
       ELSE [ok |-> FALSE, reqs |-> <<>>,
             raised |-> Raise("RequestException", "Request failed", status)]

\* The three page requests.
_current_listings_request(self, page, sell_method, resp, proxy) ==
  [BaseReq EXCEPT !.path = "/shop/account/listings", !.sell_method = sell_method,
                  !.page = page, !.status = resp.status, !.expect = 200,
                  !.proxies = proxy, !.self = self, !.data = resp.data]

_history_sales_request(self, page, resp, proxy) ==
  [BaseReq EXCEPT !.path = "/shop/account/sales/history", !.page = page,
                  !.status = resp.status, !.expect = 200, !.proxies = proxy,
                  !.self = self, !.data = resp.data]

_current_sales_request(self, page, resp, proxy) ==
  [BaseReq EXCEPT !.path = "/shop/account/sales/sold", !.page = page,
                  !.status = resp.status, !.expect = 200, !.proxies = proxy,
                  !.self = self, !.data = resp.data]

\* (a mutant of LaterPages: the last page is left out)
LaterPages_short(total_pages) == range(2, total_pages)

\* for page in range(2, total_pages + 1): the pages fetched after page 1.
LaterPages(total_pages) == range(2, total_pages + 1)

\* (a mutant of AfterPage: the listings are placed before the sales)
AfterPage_listings_first(f, resp) ==
  LET total == IF f.page = 1 THEN resp.last_page ELSE f.total_pages
      all   == f.all_data \o resp.data
  IN  IF f.page + 1 \in range(2, total + 1)
      THEN [f EXCEPT !.page = f.page + 1, !.total_pages = total, !.all_data = all]
      ELSE IF f.op = "get_shipping_products" /\ f.phase = "sold"
           THEN [f EXCEPT !.phase = "listings", !.sell_method = Consign, !.page = 1,
                          !.total_pages = 0,
                          !.current_sales_data = all, !.all_data = <<>>]
           ELSE [f EXCEPT !.pc = "map", !.total_pages = total, !.i = 1,
                          !.all_data = all \o f.current_sales_data]

\* The frame after a page was answered 200: total_pages is read from page 1
\* only, the page's data array is appended, and either the next page is due
\* or the pagination is over.  get_shipping_products paginates the sales
\* first and the consignment listings after.
AfterPage(f, resp) ==
  LET total == IF f.page = 1 THEN resp.last_page ELSE f.total_pages
      all   == f.all_data \o resp.data
  IN  IF f.page + 1 \in LaterPages(total)
      THEN [f EXCEPT !.page = f.page + 1, !.total_pages = total, !.all_data = all]
      ELSE IF f.op = "get_shipping_products" /\ f.phase = "sold"
           THEN [f EXCEPT !.phase = "listings", !.sell_method = Consign, !.page = 1,
                          !.total_pages = 0,
                          !.current_sales_data = all, !.all_data = <<>>]
           ELSE [f EXCEPT !.pc = "map", !.total_pages = total, !.i = 1,
                          !.all_data = f.current_sales_data \o all]

\* -------------------------------------------------------- paginated calls
\* The call: its locals before page 1 is requested.
StartPaged(op, self, sell_method, phase) ==
  /\ CanCall
  /\ frame' = [Idle EXCEPT !.op = op, !.pc = "page", !.self = self,
                           !.sell_method = sell_method, !.phase = phase, !.page = 1]
  /\ log' = <<>>
  /\ result' = NoResult
  /\ UNCHANGED <<clients, DEFAULT_HEADERS, files, login_ok>>

get_current_listings(self, sell_method) ==
  StartPaged("get_current_listings", self, sell_method, "listings")

get_history_sales(self) == StartPaged("get_history_sales", self, None, "history")

get_current_sales(self) == StartPaged("get_current_sales", self, None, "sold")

get_shipping_products(self) == StartPaged("get_shipping_products", self, None, "sold")

\* One page exchange: the request of frame.page, the validation of its answer
\* (with the probe a 401/404 triggers), then the loop's bookkeeping.
PageEntry(f, resp, proxy) ==
  LET e == CASE f.phase = "listings" ->
                  _current_listings_request(f.self, f.page, f.sell_method, resp, proxy)
             [] f.phase = "history" -> _history_sales_request(f.self, f.page, resp, proxy)
             [] f.phase = "sold" -> _current_sales_request(f.self, f.page, resp, proxy)
  IN  [e EXCEPT !.last_page = IF f.page = 1 THEN resp.last_page ELSE 0]

\* (a mutant of PageFailed: the failed page is passed over and the next one
\* requested)
PageFailed_skips(f) ==
  IF f.page < MaxPages THEN [f EXCEPT !.page = f.page + 1] ELSE [f EXCEPT !.pc = "done"]

\* The exception of _validate_response leaves the pagination loop and the call.
PageFailed(f) == [f EXCEPT !.pc = "done"]

PageStep(phase) ==
  /\ frame.pc = "page"
  /\ frame.phase = phase
  /\ \E resp \in PageResponses :
     \E probe \in Probes(resp.status) :
     \E proxy \in get_random_proxy(clients[frame.self].proxy_list),
        pproxy \in get_random_proxy(clients[frame.self].proxy_list) :
       LET v == _validate_response(frame.self, headers(frame.self), resp.status, 200,
                                   probe, pproxy)
       IN  /\ log' = Append(log, PageEntry(frame, resp, proxy)) \o v.reqs
           /\ IF v.ok
              THEN /\ frame' = AfterPage(frame, resp)
                   /\ result' = result
              ELSE /\ frame' = PageFailed(frame)
                   /\ result' = v.raised
  /\ UNCHANGED <<clients, DEFAULT_HEADERS, files, login_ok>>

listings_page == PageStep("listings")
history_sales_page == PageStep("history")
current_sales_page == PageStep("sold")

\* get_sku_from_id, called on the client get_sku constructs (RestocksClient():
\* no proxy list, self.headers = DEFAULT_HEADERS): the request it issues.
get_sku_from_id(baseproduct_id, resp) ==
  [BaseReq EXCEPT !.path = "/shop/catalog/products", !.id = baseproduct_id,
                  !.status = 200, !.proxies = None, !.self = "RestocksClient()",
                  !.data = resp]

\* The dict each call site builds from a raw item p and its sku.
listing_product(p, sku) ==
  [sku |-> sku, id |-> p.baseproduct.id, listing_id |-> <<p.id>>, shipping |-> <<>>]

sale_product(p, sku) ==
  [sku |-> sku, id |-> p.baseproduct.id, listing_id |-> <<p.id>>, shipping |-> <<>>]

shipping_product(p, sku) ==
  [sku |-> sku, id |-> p.baseproduct.id, listing_id |-> <<p.id>>,
   shipping |-> <<[label_url |-> p.action.link, ship_before |-> p.ship_before]>>]

product_dict(op, p, sku) ==
  CASE op = "get_current_listings" -> listing_product(p, sku)
    [] op = "get_shipping_products" -> shipping_product(p, sku)
    [] OTHER -> sale_product(p, sku)

\* get_shipping_products skips the items whose ship_before is missing or empty.
Skipped(op, p) == op = "get_shipping_products" /\ p.ship_before = <<>>

\* The id get_sku is given as baseproduct_id by the call sites.
sku_lookup_key(p) == p.id

\* The mapping loop, one item per step: "for p in all_data".  get_sku derives
\* the sku from the image URL, or (IndexError) asks the catalog with a client
\* of its own; an empty catalog answer raises IndexError out of the call.
map_item ==
  /\ frame.pc = "map"
  /\ frame.i <= Len(frame.all_data)
  /\ LET p == frame.all_data[frame.i]
         derived == _image_to_sku(p.baseproduct.image_url)
     IN  IF Skipped(frame.op, p)
         THEN /\ frame' = [frame EXCEPT !.i = frame.i + 1]
              /\ UNCHANGED <<log, result>>
         ELSE IF derived # <<>>
         THEN /\ frame' = [frame EXCEPT !.i = frame.i + 1,
                    !.out = Append(frame.out,
                              Product_from_json(product_dict(frame.op, p, derived[1])))]
              /\ UNCHANGED <<log, result>>
         ELSE \E resp \in LookupResponses :
                /\ log' = Append(log, get_sku_from_id(sku_lookup_key(p), resp))
                /\ IF resp = <<>>
                   THEN /\ frame' = [frame EXCEPT !.pc = "done"]
                        /\ result' = Raise("IndexError", "list index out of range", 0)
                   ELSE /\ frame' = [frame EXCEPT !.i = frame.i + 1,
                              !.out = Append(frame.out,
                                Product_from_json(product_dict(frame.op, p, resp[1].sku)))]
                        /\ result' = result
  /\ UNCHANGED <<clients, DEFAULT_HEADERS, files, login_ok>>

\* The paginated call returns the mapped records.
return_records ==
  /\ frame.pc = "map"
  /\ frame.i > Len(frame.all_data)
  /\ frame' = [frame EXCEPT !.pc = "done"]
  /\ result' = Return(frame.out)
  /\ UNCHANGED <<clients, DEFAULT_HEADERS, log, files, login_ok>>

\* ---------------------------------------------------------- session calls
\* A call made of a fixed number of exchanges ends in one step.
Finish(op, self, args, reqs, res) ==
  /\ frame' = [Idle EXCEPT !.op = op, !.pc = "done", !.self = self, !.args = args]
  /\ log' = reqs
  /\ result' = res

\* d[k] = v on a dict
SetItem(d, k, v) == [x \in DOMAIN d \cup {k} |-> IF x = k THEN v ELSE d[x]]

\* What the server answers to the login POST, the country list and the
\* shipping address.
Tokens == {"t1", "t2"}
Countries == {"DE", "NL"}
Locale(code) ==
  [code |-> code,
   default |-> IF code = "DE" THEN [language |-> "de", valuta |-> "EUR"]
               ELSE [language |-> "nl", valuta |-> "EUR2"]]
CountryLists == { <<Locale("NL")>>, <<Locale("DE"), Locale("NL")>> }
LoginResponses ==
  { [status |-> 200, token |-> t] : t \in Tokens }
  \cup { [status |-> st, token |-> None] : st \in Statuses \ {200} }
CountryResponses ==
  { [status |-> 200, data |-> l] : l \in CountryLists }
  \cup { [status |-> st, data |-> <<>>] : st \in Statuses \ {200} }
AddressResponses ==
  { [status |-> 200, country |-> c] : c \in Countries }
  \cup { [status |-> st, country |-> None] : st \in Statuses \ {200} }

\* check_login as a call of its own.
check_login_call(self) ==
  /\ CanCall
  /\ \E status \in Statuses, proxy \in get_random_proxy(clients[self].proxy_list) :
       LET c == check_login(self, headers(self), proxy, status)
       IN  Finish("check_login", self, <<>>, c.reqs, Return(c.value))
  /\ UNCHANGED <<clients, DEFAULT_HEADERS, files, login_ok>>

\* _get_country_of_user: the shipping address request, validated; the
\* country of its body.
_get_country_of_user(self, h, aresp, proxy, probe, pproxy) ==
  LET v == _validate_response(self, h, aresp.status, 200, probe, pproxy)
      e == [Req(h) EXCEPT !.path = "/shop/account/shipping-address",
                          !.status = aresp.status, !.expect = 200,
                          !.proxies = proxy, !.self = self]
  IN  [ok |-> v.ok, reqs |-> <<e>> \o v.reqs, raised |-> v.raised,
       value |-> aresp.country]

\* "for item in data['data']": the headers after the items from i on.
RECURSIVE LocaleLoop(_, _, _, _)
LocaleLoop(h, data, country_code, i) ==
  IF i > Len(data) THEN h
  ELSE IF data[i].code = country_code
       THEN LocaleLoop(SetItem(SetItem(h, "accept-language", data[i].default.language),
                               "restocks-valuta", data[i].default.valuta),
                       data, country_code, i + 1)
       ELSE LocaleLoop(h, data, country_code, i + 1)

\* (a mutant of StoredCredential: the argument always replaces the attribute)
StoredCredential_always(old, new) == new

\* "if email is not None: self.email = email", and the same for the password.
StoredCredential(old, new) == IF new # None THEN new ELSE old

\* (a mutant of LoginFailed: the failed login keeps the token it was sent)
LoginFailed_keeps(h, resp) ==
  [headers |-> SetItem(h, "Authorization", <<"Bearer", resp.status>>),
   res |-> Raise("LoginException", "Login failed with status code", resp.status)]

\* The else branch of login: nothing stored, LoginException with the status.
LoginFailed(h, resp) ==
  [headers |-> h,
   res |-> Raise("LoginException", "Login failed with status code", resp.status)]

EmailArgs == {None, "b@x"}
PasswordArgs == {None, "pw2"}

\* login, up to the answer to its POST: the credentials are stored, a missing
\* one raises before any request; a 200 stores the bearer token and goes on
\* to _set_country_headers, any other status raises.  frame.args keeps the
\* arguments and what self.email, self.password and self.headers were on entry.
login(self, email, password) ==
  /\ CanCall
  /\ LET me == [clients[self] EXCEPT !.email = StoredCredential(@, email),
                                     !.password = StoredCredential(@, password)]
         args == [email |-> email, password |-> password,
                  old_email |-> clients[self].email,
                  old_password |-> clients[self].password, old_headers |-> headers(self)]
     IN  /\ clients' = [clients EXCEPT ![self] = me]
         /\ IF me.email = None \/ me.password = None
            THEN /\ Finish("login", self, args, <<>>,
                          Raise("LoginException", "Email and password must be provided", 0))
                 /\ UNCHANGED DEFAULT_HEADERS
            ELSE \E resp \in LoginResponses,
                    proxy \in get_random_proxy(me.proxy_list) :
                   LET post == [BaseReq EXCEPT !.method = "POST", !.path = "/auth/login",
                                  !.status = resp.status, !.proxies = proxy, !.self = self,
                                  !.data = <<resp.token>>,
                                  !.json = [email |-> me.email, password |-> me.password]]
                   IN  IF resp.status = 200
                       THEN /\ DEFAULT_HEADERS' =
                                 SetItem(headers(self), "Authorization",
                                         <<"Bearer", resp.token>>)
                            /\ frame' = [Idle EXCEPT !.op = "login", !.pc = "countries",
                                                     !.self = self, !.args = args]
                            /\ log' = <<post>>
                            /\ result' = NoResult
                       ELSE LET f == LoginFailed(headers(self), resp)
                            IN  /\ DEFAULT_HEADERS' = f.headers
                                /\ Finish("login", self, args, <<post>>, f.res)
  /\ UNCHANGED <<files, login_ok>>

\* _set_country_headers, its first two lines: the country list, requested
\* without proxies=, and its validation.
_set_country_headers_countries ==
  /\ frame.pc = "countries"
  /\ \E cresp \in CountryResponses :
     \E probe \in Probes(cresp.status),
        pproxy \in get_random_proxy(clients[frame.self].proxy_list) :
       LET e == [BaseReq EXCEPT !.path = "/countries", !.status = cresp.status,
                                !.expect = 200, !.proxies = None, !.self = frame.self]
           v == _validate_response(frame.self, headers(frame.self), cresp.status, 200,
                                   probe, pproxy)
       IN  /\ log' = Append(log, e) \o v.reqs
           /\ IF v.ok
              THEN /\ frame' = [frame EXCEPT !.pc = "address", !.country_response = cresp.data]
                   /\ result' = result
              ELSE /\ frame' = [frame EXCEPT !.pc = "done"]
                   /\ result' = v.raised
  /\ UNCHANGED <<clients, DEFAULT_HEADERS, files, login_ok>>

\* The rest of _set_country_headers: _get_country_of_user, the three locale
\* headers, and login's "return True".
_set_country_headers_locale ==
  /\ frame.pc = "address"
  /\ \E aresp \in AddressResponses :
     \E probe \in Probes(aresp.status),
        proxy \in get_random_proxy(clients[frame.self].proxy_list),
        pproxy \in get_random_proxy(clients[frame.self].proxy_list) :
       LET u == _get_country_of_user(frame.self, headers(frame.self), aresp, proxy,
                                     probe, pproxy)
       IN  /\ log' = log \o u.reqs
           /\ frame' = [frame EXCEPT !.pc = "done"]
           /\ IF u.ok
              THEN /\ DEFAULT_HEADERS' =
                        LocaleLoop(SetItem(headers(frame.self), "restocks-country", u.value),
                                   frame.country_response, u.value, 1)
                   /\ result' = Return(TRUE)
                   /\ login_ok' = login_ok \cup {frame.self}
              ELSE /\ result' = u.raised
                   /\ UNCHANGED <<DEFAULT_HEADERS, login_ok>>
  /\ UNCHANGED <<clients, files>>

\* ------------------------------------------------------------ text values
\* A text whose characters matter (a size) is the sequence of its characters.
\* The glyphs one half, one third and two thirds are single characters.
Half == "u00bd"
Third == "u2153"
TwoThirds == "u2154"

\* sub occurs in s at position i
OccursAt(s, sub, i) ==
  /\ i + Len(sub) - 1 <= Len(s)
  /\ \A k \in 1 .. Len(sub) : s[i + k - 1] = sub[k]

\* "sub in s"
Contains(s, sub) == \E i \in 1 .. Len(s) : OccursAt(s, sub, i)

\* s.replace(sub, new), from position i on: every occurrence, left to right
RECURSIVE ReplaceFrom(_, _, _, _)
ReplaceFrom(s, sub, new, i) ==
  IF i > Len(s) THEN <<>>
  ELSE IF OccursAt(s, sub, i) THEN new \o ReplaceFrom(s, sub, new, i + Len(sub))
       ELSE <<s[i]>> \o ReplaceFrom(s, sub, new, i + 1)
Replace(s, sub, new) == ReplaceFrom(s, sub, new, 1)

\* (a mutant of dict_get: an absent key counts as True)
dict_get_true(entry, default) == IF entry = <<>> THEN TRUE ELSE entry[1]

\* dict.get(key, default) of an optional entry
dict_get(entry, default) == IF entry = <<>> THEN default ELSE entry[1]

\* ------------------------------------------------------------ simple calls
\* The sizes a caller asks for and the size tables the server can answer with.
Size42 == <<"4", "2">>
Size42Half == <<"4", "2", ".", "5">>
Size43Third == <<"4", "3", " ", "1", "/", "3">>
SizeArgs == {Size42, Size42Half, Size43Third}
SizeTables ==
  { <<>>,
    <<[name |-> <<"4", "2">>, id |-> 0], [name |-> <<"4", "2", " ", Half>>, id |-> 5]>>,
    <<[name |-> <<"4", "3", " ", Third>>, id |-> 9], [name |-> <<"4", "2">>, id |-> 7]>> }

\* The answers to the size table request: the body's data, <<>> when the body
\* has no 'data' key (the body of an error answer may or may not have one).
SizeResponses ==
  { [status |-> st, data |-> <<t>>] : st \in {200, 401}, t \in SizeTables }
  \cup { [status |-> st, data |-> <<>>] : st \in Statuses \ {200} }

\* The answers whose body is {data: {success: ...}} (delete, create): success
\* is <<>> when the key is absent.
SuccessResponses ==
  { [status |-> 200, success |-> b] : b \in {<<>>, <<TRUE>>, <<FALSE>>} }
  \cup { [status |-> st, success |-> <<>>] : st \in Statuses \ {200} }

\* A request of self answered resp and given to _validate_response(.., 200):
\* the requests issued (the probe included) and how the validation ends.
Validated(self, e, resp, proxy, probe, pproxy) ==
  LET v == _validate_response(self, headers(self), resp.status, 200, probe, pproxy)
  IN  [ok |-> v.ok, raised |-> v.raised,
       reqs |-> <<[e EXCEPT !.status = resp.status, !.expect = 200,
                            !.proxies = proxy, !.self = self]>> \o v.reqs]

edit_listing(self, listing_id, new_price) ==
  /\ CanCall
  /\ \E st \in Statuses :
     \E probe \in Probes(st),
        proxy \in get_random_proxy(clients[self].proxy_list),
        pproxy \in get_random_proxy(clients[self].proxy_list) :
       LET r == Validated(self,
                  [BaseReq EXCEPT !.method = "PUT", !.path = "/shop/account/listings",
                                  !.id = listing_id, !.json = [price |-> new_price]],
                  [status |-> st], proxy, probe, pproxy)
       IN  Finish("edit_listing", self, [listing_id |-> listing_id], r.reqs,
                  IF r.ok THEN Return(TRUE) ELSE r.raised)
  /\ UNCHANGED <<clients, DEFAULT_HEADERS, files, login_ok>>

delete_listing(self, listing_id) ==
  /\ CanCall
  /\ \E resp \in SuccessResponses :
     \E probe \in Probes(resp.status),
        proxy \in get_random_proxy(clients[self].proxy_list),
        pproxy \in get_random_proxy(clients[self].proxy_list) :
       LET r == Validated(self,
                  [BaseReq EXCEPT !.method = "DELETE", !.path = "/shop/account/listings",
                                  !.id = listing_id, !.data = resp.success],
                  resp, proxy, probe, pproxy)
       IN  Finish("delete_listing", self, [listing_id |-> listing_id], r.reqs,
                  IF r.ok THEN Return(dict_get(resp.success, FALSE)) ELSE r.raised)
  /\ UNCHANGED <<clients, DEFAULT_HEADERS, files, login_ok>>

\* (a mutant of CanonicalSize: the half glyph is put in without the space)
CanonicalSize_nospace(size) ==
  IF Contains(size, <<".", "5">>) THEN Replace(size, <<".", "5">>, <<Half>>)
  ELSE IF Contains(size, <<"1", "/", "3">>) THEN Replace(size, <<"1", "/", "3">>, <<Third>>)
  ELSE IF Contains(size, <<"2", "/", "3">>) THEN Replace(size, <<"2", "/", "3">>, <<TwoThirds>>)
  ELSE size

\* The size get_size_id looks for: ".5" becomes " <half>", else "1/3" the one
\* third glyph, else "2/3" the two thirds glyph.
CanonicalSize(size) ==
  IF Contains(size, <<".", "5">>) THEN Replace(size, <<".", "5">>, <<" ", Half>>)
  ELSE IF Contains(size, <<"1", "/", "3">>) THEN Replace(size, <<"1", "/", "3">>, <<Third>>)
  ELSE IF Contains(size, <<"2", "/", "3">>) THEN Replace(size, <<"2", "/", "3">>, <<TwoThirds>>)
  ELSE size

\* The loop of get_size_id: the id of the first entry named size, else None.
FirstSizeId(data, size) ==
  LET hits == {i \in 1 .. Len(data) : data[i].name = size}
  IN  IF hits = {} THEN <<>>
      ELSE <<data[CHOOSE i \in hits : \A j \in hits : i <= j].id>>

\* get_size_id: the size table is requested with requests.get and its status
\* is never looked at; a body without 'data' raises KeyError.
get_size_id(self, baseproduct_id, size, resp, proxy) ==
  [req |-> [BaseReq EXCEPT !.path = "/shop/baseproducts/sizes", !.id = baseproduct_id,
                           !.status = resp.status, !.proxies = proxy, !.self = self,
                           !.data = resp.data],
   raised |-> IF resp.data = <<>> THEN Raise("KeyError", "data", 0) ELSE NoResult,
   value |-> IF resp.data = <<>> THEN <<>>
             ELSE FirstSizeId(resp.data[1], CanonicalSize(size))]

\* "not size_id" of an optional integer
NotSizeId(size_id) == size_id = <<>> \/ size_id[1] = 0

Days30 == 30

list_product(self, product, size, store_price, sell_method, duration) ==
  /\ CanCall
  /\ \E sresp \in SizeResponses, sproxy \in get_random_proxy(clients[self].proxy_list) :
       LET g == get_size_id(self, product.id, size, sresp, sproxy)
           args == [product |-> product, size |-> size]
       IN  IF g.raised # NoResult
           THEN Finish("list_product", self, args, <<g.req>>, g.raised)
           ELSE IF NotSizeId(g.value)
           THEN Finish("list_product", self, args, <<g.req>>,
                       Raise("SessionException", "invalid size", 0))
           ELSE \E resp \in SuccessResponses :
                \E probe \in Probes(resp.status),
                   proxy \in get_random_proxy(clients[self].proxy_list),
                   pproxy \in get_random_proxy(clients[self].proxy_list) :
                  LET r == Validated(self,
                             [BaseReq EXCEPT !.method = "POST", !.path = "/shop/account/sell",
                                !.data = resp.success,
                                !.json = <<[baseproduct_id |-> product.id,
                                            size_id |-> g.value[1], condition |-> TRUE,
                                            amount |-> 1, store_price |-> store_price,
                                            sell_method |-> sell_method,
                                            duration |-> duration]>>],
                             resp, proxy, probe, pproxy)
                  IN  Finish("list_product", self, args, <<g.req>> \o r.reqs,
                             IF r.ok THEN Return(dict_get(resp.success, FALSE))
                             ELSE r.raised)
  /\ UNCHANGED <<clients, DEFAULT_HEADERS, files, login_ok>>

\* What the label URL answers: its status and the first four characters of
\* its text.
LabelResponses ==
  { [status |-> 200, magic |-> m] : m \in {"GIF8", "%PDF", "<htm"} }
  \cup { [status |-> st, magic |-> "<htm"] : st \in Statuses \ {200} }

\* download_label: the label is fetched and validated; its first four
\* characters decide the file written and the format returned, None for any
\* other start.
download_label(self, product, path) ==
  /\ CanCall
  /\ \E resp \in LabelResponses :
     \E probe \in Probes(resp.status),
        proxy \in get_random_proxy(clients[self].proxy_list),
        pproxy \in get_random_proxy(clients[self].proxy_list) :
       LET r == Validated(self, [BaseReq EXCEPT !.path = product.shipping.label_url],
                          resp, proxy, probe, pproxy)
           format == IF resp.magic = "GIF8" THEN "GIF"
                     ELSE IF resp.magic = "%PDF" THEN "PDF" ELSE None
           ext == IF format = "GIF" THEN ".gif" ELSE ".pdf"
       IN  /\ Finish("download_label", self, [product |-> product], r.reqs,
                     IF r.ok THEN Return(format) ELSE r.raised)
           /\ files' = IF r.ok /\ format # None
                       THEN files \cup {<<path, product.listing_id, ext>>}
                       ELSE files
  /\ UNCHANGED <<clients, DEFAULT_HEADERS, login_ok>>

\* What the sell config answers: is_consign_locked, <<>> when absent.
ConfigResponses ==
  { [status |-> 200, is_consign_locked |-> b] : b \in {<<>>, <<TRUE>>, <<FALSE>>} }
  \cup { [status |-> st, is_consign_locked |-> <<>>] : st \in Statuses \ {200} }

check_consign_status(self) ==
  /\ CanCall
  /\ \E resp \in ConfigResponses :
     \E probe \in Probes(resp.status),
        proxy \in get_random_proxy(clients[self].proxy_list),
        pproxy \in get_random_proxy(clients[self].proxy_list) :
       LET r == Validated(self, [BaseReq EXCEPT !.path = "/shop/account/sell/config"],
                          resp, proxy, probe, pproxy)
       IN  Finish("check_consign_status", self, <<>>, r.reqs,
                  IF r.ok THEN Return(~dict_get(resp.is_consign_locked, FALSE))
                  ELSE r.raised)
  /\ UNCHANGED <<clients, DEFAULT_HEADERS, files, login_ok>>

\* What the caller passes as sku and as name, and what autocomplete answers.
SearchArgs == {None, "", "AB1"}
Found1 == [id |-> 11, sku |-> "AB1", image_url |-> ImgProducts("AB1")]
Found2 == [id |-> 12, sku |-> "CD2", image_url |-> ImgPlain]
SearchResponses ==
  { [status |-> 200, products |-> l] : l \in {<<>>, <<Found1>>, <<Found2, Found1>>} }
  \cup { [status |-> st, products |-> l] :
           st \in Statuses \ {200}, l \in {<<>>, <<Found1>>} }

\* (a mutant of BadSearchArgs: only the call without any argument is refused)
BadSearchArgs_neither(sku, name) == ~Truthy(sku) /\ ~Truthy(name)

\* "not (bool(sku) ^ bool(name))"
BadSearchArgs(sku, name) == ~(Truthy(sku) # Truthy(name))

\* search_product: ValueError unless exactly one of sku and name is given;
\* one autocomplete request (requests.get, not validated); None for a non-200
\* answer or an empty product list, else the record of the first product.
search_product(self, sku, name) ==
  /\ CanCall
  /\ LET args == [sku |-> sku, name |-> name]
     IN  IF BadSearchArgs(sku, name)
         THEN Finish("search_product", self, args, <<>>,
                     Raise("ValueError", "Either sku or name must be provided, but not both", 0))
         ELSE \E resp \in SearchResponses,
                 proxy \in get_random_proxy(clients[self].proxy_list) :
                LET e == [BaseReq EXCEPT !.path = "/shop/catalog/autocomplete",
                            !.status = resp.status, !.proxies = proxy, !.self = self,
                            !.data = resp.products,
                            !.json = [query |-> IF Truthy(sku) THEN sku ELSE name,
                                      minimum_price |-> "0"]]
                IN  Finish("search_product", self, args, <<e>>,
                      IF resp.status # 200 THEN Return(<<>>)
                      ELSE IF resp.products = <<>> THEN Return(<<>>)
                      ELSE Return(<<Product_from_json(
                                      [sku |-> resp.products[1].sku,
                                       id |-> resp.products[1].id,
                                       listing_id |-> <<>>, shipping |-> <<>>])>>))
  /\ UNCHANGED <<clients, DEFAULT_HEADERS, files, login_ok>>

\* ---------------------------------------------------------------- catalog
\* Text is a sequence of one-character strings.
Digits == <<"0", "1", "2", "3", "4", "5", "6", "7", "8", "9">>
IsDigit(c) == \E d \in 1 .. 10 : Digits[d] = c
DigitValue(c) == (CHOOSE d \in 1 .. 10 : Digits[d] = c) - 1

\* re.search(r'\d+', s): <<the first digit run>>, <<>> for no match (None)
DigitRun(s) ==
  LET at == {i \in 1 .. Len(s) : IsDigit(s[i])}
  IN  IF at = {} THEN <<>>
      ELSE LET i0 == CHOOSE i \in at : \A j \in at : i <= j
               ends == {j \in i0 .. Len(s) : \A k \in i0 .. j : IsDigit(s[k])}
               j0 == CHOOSE j \in ends : \A k \in ends : k <= j
           IN  <<SubSeq(s, i0, j0)>>

\* int(digits)
RECURSIVE ToInt(_)
ToInt(digits) ==
  IF digits = <<>> THEN 0
  ELSE 10 * ToInt(SubSeq(digits, 1, Len(digits) - 1)) + DigitValue(digits[Len(digits)])

\* helpers.parse_int on text: the "." are removed, then the first digit run
\* is read as an integer.  (The texts of the model all hold a digit.)
parse_int_text(number_str) ==
  ToInt(DigitRun(SelectSeq(number_str, LAMBDA c : c # "."))[1])

\* helpers.parse_size: the first digit run, then ".5" for a half, " 2/3" and
\* " 1/3" for the thirds.  (The size names of the model all hold a digit.)
parse_size(size_str) ==
  LET num == DigitRun(size_str)[1]
  IN  IF Contains(size_str, <<".", "5">>) \/ Contains(size_str, <<Half>>)
      THEN num \o <<".", "5">>
      ELSE IF Contains(size_str, <<TwoThirds>>) THEN num \o <<" ", "2", "/", "3">>
      ELSE IF Contains(size_str, <<Third>>) THEN num \o <<" ", "1", "/", "3">>
      ELSE num

\* "not price" of an optional integer
NotPrice(price) == price = <<>> \/ price[1] = 0

\* Variant._from_json: one Variant per entry, oos = not price.
Variant_from_json(data) ==
  [k \in 1 .. Len(data) |->
     [size |-> data[k].size, price |-> data[k].price, oos |-> NotPrice(data[k].price),
      size_id |-> data[k].size_id]]

\* The formatted amounts of a price entry.
Amount0 == <<"0">>
Amount120 == <<"1", "2", "0">>
Amount1200 == <<"1", ".", "2", "0", "0">>
Priced(a) == [formatted_amount |-> <<"E", " ">> \o a]

\* The size entries of a product: no price, a price of 0, a price with a
\* thousands separator, and two prices; and the sizes arrays (at most MaxSizes
\* long) the server answers with.
MaxSizes == 2
SizeEntries ==
  { [name |-> <<"4", "2">>, id |-> 7, prices |-> <<>>],
    [name |-> <<"4", "2", " ", Half>>, id |-> 8, prices |-> <<Priced(Amount0)>>],
    [name |-> <<"4", "2", " ", TwoThirds>>, id |-> 9, prices |-> <<Priced(Amount1200)>>],
    [name |-> <<"4", "3", " ", Third>>, id |-> 10,
     prices |-> <<Priced(Amount120), Priced(Amount0)>>] }
SizesArrays == UNION {[1 .. n -> SizeEntries] : n \in 0 .. MaxSizes}

\* The answers to the product info request: the body's data, <<>> when the
\* body has no 'data' key.
InfoResponses ==
  { [status |-> 200, data |-> <<[id |-> 11, sku |-> "CAT9", sizes |-> sz]>>] : sz \in SizesArrays }
  \cup { [status |-> st, data |-> <<>>] : st \in Statuses \ {200} }

\* The slugs asked for.
Slugs == {"dunk-low", "air-max"}

\* get_product_info: the product is requested and its status never looked
\* at; each size entry gives a variant whose price is the integer of the
\* first price entry, None for an empty prices array; Product._from_json
\* makes the variants (None for an empty list).
get_product_info(self, slug) ==
  /\ CanCall
  /\ \E resp \in InfoResponses, proxy \in get_random_proxy(clients[self].proxy_list) :
       LET e == [BaseReq EXCEPT !.path = "/shop/baseproducts", !.status = resp.status,
                                !.proxies = proxy, !.self = self, !.data = resp.data,
                                !.json = [slug |-> slug]]
           variants_raw == resp.data[1].sizes
           variants == [k \in 1 .. Len(variants_raw) |->
                          [size |-> parse_size(variants_raw[k].name),
                           size_id |-> variants_raw[k].id,
                           price |-> IF variants_raw[k].prices # <<>>
                                     THEN <<parse_int_text(
                                              variants_raw[k].prices[1].formatted_amount)>>
                                     ELSE <<>>]]
       IN  Finish("get_product_info", self, [slug |-> slug], <<e>>,
             IF resp.data = <<>> THEN Raise("KeyError", "data", 0)
             ELSE Return(Product_from_json([sku |-> resp.data[1].sku, id |-> resp.data[1].id,
                                            listing_id |-> <<>>, shipping |-> <<>>])
                         @@ [variants |-> IF variants = <<>> THEN <<>>
                                          ELSE <<Variant_from_json(variants)>>]))
  /\ UNCHANGED <<clients, DEFAULT_HEADERS, files, login_ok>>


\* The sizes asked of get_size_id and the size tables it is answered with:
\* those of list_product, a two-thirds size, and a table with a name twice.
Size42TwoThirds == <<"4", "2", " ", "2", "/", "3">>
CatalogSizeArgs == SizeArgs \cup {Size42TwoThirds}
CatalogSizeTables ==
  SizeTables \cup
  { <<[name |-> <<"4", "2", " ", TwoThirds>>, id |-> 4], [name |-> <<"4", "2">>, id |-> 7],
      [name |-> <<"4", "2">>, id |-> 3]>> }
CatalogSizeResponses ==
  { [status |-> 200, data |-> <<t>>] : t \in CatalogSizeTables }
  \cup { [status |-> st, data |-> <<>>] : st \in Statuses \ {200} }

\* get_size_id called by the user: the id found, None (<<>>) for no match.
get_size_id_call(self, baseproduct_id, size) ==
  /\ CanCall
  /\ \E resp \in CatalogSizeResponses, proxy \in get_random_proxy(clients[self].proxy_list) :
       LET g == get_size_id(self, baseproduct_id, size, resp, proxy)
       IN  Finish("get_size_id", self, [baseproduct_id |-> baseproduct_id, size |-> size],
                  <<g.req>>, IF g.raised # NoResult THEN g.raised ELSE Return(g.value))
  /\ UNCHANGED <<clients, DEFAULT_HEADERS, files, login_ok>>

\* ------------------------------------------------------------------- Init
\* utils/defaults.py is not part of the sources read here: DEFAULT_HEADERS is
\* a fixed set of browser-like headers, none of them Authorization or a
\* locale override.
InitialHeaders == [k \in {"user-agent"} |-> "browser"]

\* Two constructed clients: RestocksClient() and
\* RestocksClient(email, password, proxy_list).
Init ==
  /\ clients = [c \in Clients |->
        IF c = "c1"
        THEN [email |-> None, password |-> None, proxy_list |-> None]
        ELSE [email |-> "a@x", password |-> "pw", proxy_list |-> <<"proxyA">>]]
  /\ DEFAULT_HEADERS = InitialHeaders
  /\ frame = Idle
  /\ log = <<>>
  /\ result = NoResult
  /\ files = {}
  /\ login_ok = {}

PagingNext ==
  \/ \E self \in Clients, sell_method \in SellMethod : get_current_listings(self, sell_method)
  \/ \E self \in Clients : get_history_sales(self)
  \/ \E self \in Clients : get_current_sales(self)
  \/ \E self \in Clients : get_shipping_products(self)
  \/ listings_page
  \/ history_sales_page
  \/ current_sales_page
  \/ map_item
  \/ return_records

SpecPaging == Init /\ [][PagingNext]_vars

SessionNext ==
  \/ \E self \in Clients, email \in EmailArgs, password \in PasswordArgs :
       login(self, email, password)
  \/ _set_country_headers_countries
  \/ _set_country_headers_locale
  \/ \E self \in Clients : check_login_call(self)

SpecSession == Init /\ [][SessionNext]_vars

CallsNext ==
  \/ \E self \in Clients : check_login_call(self)
  \/ \E self \in Clients : edit_listing(self, 1, 100)
  \/ \E self \in Clients : delete_listing(self, 1)
  \/ \E self \in Clients, size \in SizeArgs :
       list_product(self, [id |-> 11], size, 100, Resell, Days30)
  \/ \E self \in Clients :
       download_label(self, [listing_id |-> 1, shipping |-> [label_url |-> "label1"]], "dir/")
  \/ \E self \in Clients : check_consign_status(self)
  \/ \E self \in Clients, sku \in SearchArgs, name \in SearchArgs :
       search_product(self, sku, name)

SpecCalls == Init /\ [][CallsNext]_vars

CatalogNext ==
  \/ \E self \in Clients, slug \in Slugs : get_product_info(self, slug)
  \/ \E self \in Clients, size \in CatalogSizeArgs : get_size_id_call(self, 11, size)

SpecCatalog == Init /\ [][CatalogNext]_vars

\* =================================================================== claims
\* The page requests of the log, in the order issued, and the items their
\* data arrays carry, concatenated.
PageLog(path) == SelectSeq(log, LAMBDA e : e.page > 0 /\ e.path = path)
AllPageLog == SelectSeq(log, LAMBDA e : e.page > 0)

RECURSIVE ConcatData(_)
ConcatData(entries) ==
  IF entries = <<>> THEN <<>>
  ELSE Head(entries).data \o ConcatData(Tail(entries))

PathOf(op) ==
  CASE op = "get_current_listings" -> "/shop/account/listings"
    [] op = "get_history_sales" -> "/shop/account/sales/history"
    [] op = "get_current_sales" -> "/shop/account/sales/sold"
    [] OTHER -> None

\* The pagination of the call is over (it maps, or it has ended).
PaginationOver == frame.pc \in {"map", "done"}

\* entries are the requests of pages 1, 2, ..., n, in that order, all answered 200
PagesInOrder(entries, n) ==
  /\ Len(entries) = n
  /\ \A k \in 1 .. n : entries[k].page = k

\* records are the records of items, one for one and in order
RecordsOf(records, items) ==
  /\ Len(records) = Len(items)
  /\ \A j \in 1 .. Len(items) :
       /\ records[j].listing_id = <<items[j].id>>
       /\ records[j].id = items[j].baseproduct.id

\* C1: for getCurrentListings, getHistorySales and getCurrentSales, when every
\* page request is answered 200 and page 1 reports last_page = N >= 1, exactly
\* N page requests are issued, for pages 1..N in that order (all to the call's
\* own endpoint), and the records returned are, one for one and in order, those
\* of the concatenated data arrays of pages 1..N.
C1_PaginationAggregates ==
  ( /\ frame.op \in {"get_current_listings", "get_history_sales", "get_current_sales"}
    /\ PaginationOver
    /\ \A k \in 1 .. Len(AllPageLog) : AllPageLog[k].status = 200
    /\ AllPageLog # <<>>
    /\ AllPageLog[1].last_page >= 1 )
  => /\ PagesInOrder(AllPageLog, AllPageLog[1].last_page)
     /\ \A k \in 1 .. Len(AllPageLog) : AllPageLog[k].path = PathOf(frame.op)
     /\ (frame.op = "get_current_listings"
           => \A k \in 1 .. Len(AllPageLog) : AllPageLog[k].sell_method = frame.sell_method)
     /\ (result.kind = "return" => RecordsOf(result.value, ConcatData(AllPageLog)))

\* C1's case: a listings call over MaxPages >= 2 pages that returned three records
C1_Witness ==
  /\ frame.op = "get_current_listings"
  /\ frame.pc = "done"
  /\ result.kind = "return"
  /\ Len(AllPageLog) = 2
  /\ AllPageLog[1].last_page = 2
  /\ Len(result.value) = 3

\* C10: getShippingProducts paginates the current sales in full, then the
\* current consignment listings in full, and returns one record with its
\* shipping populated for exactly the items that carry a ship_before, the
\* sales' first and the listings' after, each group in page order.
SoldLog == PageLog("/shop/account/sales/sold")
ConsignLog == PageLog("/shop/account/listings")
WithShipBefore(items) == SelectSeq(items, LAMBDA p : p.ship_before # <<>>)

C10_ShippingProducts ==
  ( /\ frame.op = "get_shipping_products"
    /\ frame.pc = "done"
    /\ result.kind = "return" )
  => /\ AllPageLog = SoldLog \o ConsignLog
     /\ PagesInOrder(SoldLog, IF SoldLog[1].last_page >= 1 THEN SoldLog[1].last_page ELSE 1)
     /\ PagesInOrder(ConsignLog,
                     IF ConsignLog[1].last_page >= 1 THEN ConsignLog[1].last_page ELSE 1)
     /\ \A k \in 1 .. Len(ConsignLog) : ConsignLog[k].sell_method = Consign
     /\ LET items == WithShipBefore(ConcatData(SoldLog) \o ConcatData(ConsignLog))
        IN  /\ RecordsOf(result.value, items)
            /\ \A j \in 1 .. Len(items) :
                 /\ result.value[j].shipping # <<>>
                 /\ result.value[j].shipping[1].label_url = items[j].action.link
                 /\ result.value[j].shipping[1].ship_before.day = items[j].ship_before[1]

\* C10's case: two pages of sales and two of listings, some items without a
\* ship_before, records from both groups
C10_Witness ==
  /\ frame.op = "get_shipping_products"
  /\ frame.pc = "done"
  /\ result.kind = "return"
  /\ Len(SoldLog) = 2
  /\ Len(ConsignLog) = 2
  /\ Len(ConcatData(SoldLog)) = 3
  /\ Len(ConcatData(ConsignLog)) = 3
  /\ Len(result.value) = 3
  /\ result.value[1].listing_id = <<2>>
  /\ result.value[3].listing_id = <<2>>

\* ------------------------------------------------------------------ C2
IsProbe(e) == e.path = "/shop/account/profile" /\ e.expect = 0
IsRaise(type, msg, status) == result = Raise(type, msg, status)

\* C2: for a validated response whose status is not the expected one: on a 404
\* or 401 the profile is probed exactly once, and the call raises
\* LoginException ("not logged in") iff that probe is not answered 200; in
\* every other case (another status, or a probe answered 200) it raises
\* RequestException with the status.  A response with the expected status is
\* let through, and no probe follows it.
C2_ResponseValidation ==
  \A i \in 1 .. Len(log) :
    log[i].expect # 0 =>
      IF log[i].status = log[i].expect
      THEN /\ i < Len(log) => ~IsProbe(log[i + 1])
           /\ i = Len(log) => result.kind # "raise"
      ELSE IF log[i].status \in {404, 401}
      THEN /\ Len(log) = i + 1
           /\ IsProbe(log[i + 1])
           /\ log[i + 1].self = log[i].self
           /\ frame.pc = "done"
           /\ IsRaise("LoginException", "not logged in", 0) <=> log[i + 1].status # 200
           /\ IsRaise("RequestException", "Request failed", log[i].status)
                <=> log[i + 1].status = 200
      ELSE /\ Len(log) = i
           /\ frame.pc = "done"
           /\ IsRaise("RequestException", "Request failed", log[i].status)

\* C2's case: a DELETE answered 404, the probe answered 200
C2_Witness ==
  /\ frame.op = "delete_listing"
  /\ Len(log) = 2
  /\ log[1].status = 404
  /\ log[2].status = 200
  /\ IsRaise("RequestException", "Request failed", 404)

\* ------------------------------------------------------------------ C3
\* C3: whenever no call is running, a client whose header map has an
\* Authorization entry has had a login call return success.
C3_TokenOnlyAfterLogin ==
  CanCall => \A c \in Clients : "Authorization" \in DOMAIN headers(c) => c \in login_ok

\* ------------------------------------------------------------------ C4
LoginDone == frame.op = "login" /\ frame.pc = "done" /\ log # <<>>
NonProbes == SelectSeq(log, LAMBDA e : ~IsProbe(e))
LoginPostOnce ==
  /\ log[1].method = "POST"
  /\ log[1].path = "/auth/login"
  /\ log[1].json = [email |-> clients[frame.self].email,
                    password |-> clients[frame.self].password]
  /\ \A i \in 2 .. Len(log) : log[i].path # "/auth/login"
LoginRefused ==
  /\ IsRaise("LoginException", "Login failed with status code", log[1].status)
  /\ Len(log) = 1
  /\ DEFAULT_HEADERS = frame.args.old_headers
TokenStored ==
  /\ "Authorization" \in DOMAIN DEFAULT_HEADERS
  /\ DEFAULT_HEADERS["Authorization"] = <<"Bearer", log[1].data[1]>>

C5_Credentials ==
  frame.op = "login" =>
    LET me == clients[frame.self]
        a == frame.args
    IN  /\ me.email = IF a.email # None THEN a.email ELSE a.old_email
        /\ me.password = IF a.password # None THEN a.password ELSE a.old_password
        /\ (me.email = None \/ me.password = None) =>
             /\ frame.pc = "done"
             /\ IsRaise("LoginException", "Email and password must be provided", 0)
             /\ log = <<>>
             /\ DEFAULT_HEADERS = a.old_headers
        /\ (me.email # None /\ me.password # None) => log # <<>>

\* C5's case: a stored email kept by a null argument, no password, while the
\* header map already holds a token
C5_Witness ==
  /\ frame.op = "login"
  /\ frame.self = "c1"
  /\ frame.args.email = None
  /\ frame.args.old_email = "b@x"
  /\ clients["c1"].email = "b@x"
  /\ clients["c1"].password = None
  /\ result.kind = "raise"
  /\ "Authorization" \in DOMAIN DEFAULT_HEADERS

\* ------------------------------------------------------------------ C6
AuthenticatedOps ==
  {"get_current_listings", "get_history_sales", "get_current_sales",
   "get_shipping_products", "edit_listing", "delete_listing", "list_product",
   "download_label", "check_consign_status"}

\* C6: against a server answering every request 401, check_login returns
\* false (raising nothing) and every other authenticated call raises
\* LoginException.
C6_DeadSession ==
  (frame.pc = "done" /\ log # <<>> /\ \A i \in 1 .. Len(log) : log[i].status = 401) =>
    /\ frame.op = "check_login" => result = Return(FALSE)
    /\ frame.op \in AuthenticatedOps =>
         /\ result.kind = "raise"
         /\ result.exc.type = "LoginException"

\* ------------------------------------------------------------------ C7
\* C7: delete_listing returns true iff the DELETE is answered 200 with a body
\* whose success field is true; a 200 body with success false or absent gives
\* false, and another status raises.
C7_DeleteListing ==
  (frame.op = "delete_listing" /\ frame.pc = "done") =>
    /\ log[1].method = "DELETE"
    /\ (result.kind = "return" /\ result.value = TRUE)
         <=> (log[1].status = 200 /\ log[1].data = <<TRUE>>)
    /\ (log[1].status = 200 /\ log[1].data \in {<<>>, <<FALSE>>}) =>
         (result.kind = "return" /\ result.value = FALSE)
    /\ log[1].status # 200 => result.kind = "raise"

\* C7's case: a 200 whose body has no success field
C7_Witness ==
  /\ frame.op = "delete_listing"
  /\ frame.pc = "done"
  /\ log[1].status = 200
  /\ log[1].data = <<>>
  /\ result.kind = "return"
  /\ result.value = FALSE

\* ------------------------------------------------------------------ C8
\* C8: search_product with both or neither of SKU and slug set raises
\* ValueError without a request; with exactly one set it issues one request
\* and returns the first product of the results, or nothing when the status
\* is not 200 or the result list is empty.
C8_SearchProduct ==
  (frame.op = "search_product" /\ frame.pc = "done") =>
    LET sku == frame.args.sku
        slug == frame.args.name
        set_ == {x \in {sku, slug} : x \notin {None, ""}}
    IN  IF (sku \notin {None, ""}) = (slug \notin {None, ""})
        THEN /\ log = <<>>
             /\ result.kind = "raise"
             /\ result.exc.type = "ValueError"
        ELSE /\ Len(log) = 1
             /\ log[1].path = "/shop/catalog/autocomplete"
             /\ log[1].json.query = CHOOSE x \in set_ : TRUE
             /\ result.kind = "return"
             /\ IF log[1].status # 200 \/ log[1].data = <<>>
                THEN result.value = <<>>
                ELSE /\ Len(result.value) = 1
                     /\ result.value[1].id = log[1].data[1].id
                     /\ result.value[1].sku = log[1].data[1].sku

\* C8's cases: the empty string counts as unset, and a list of two products
\* gives the first
C8_Witness ==
  /\ frame.op = "search_product"
  /\ frame.pc = "done"
  /\ frame.args.sku = ""
  /\ frame.args.name = "AB1"
  /\ Len(log) = 1
  /\ Len(log[1].data) = 2
  /\ result.kind = "return"
  /\ result.value # <<>>

\* ------------------------------------------------------------------ C9
\* C9: list_product, once the size table is obtained, raises "invalid size"
\* with no POST iff no entry of the table has the canonical form of the size
\* as its name; otherwise it posts one listing with the id of the first such
\* entry and returns true iff the POST is answered 200 with success true.
C9_ListProduct ==
  (frame.op = "list_product" /\ frame.pc = "done" /\ Len(log) >= 1 /\ log[1].data # <<>>) =>
    LET table == log[1].data[1]
        name == CanonicalSize(frame.args.size)
        match == {i \in 1 .. Len(table) : table[i].name = name}
        first == CHOOSE i \in match : \A j \in match : i <= j
        posts == {i \in 1 .. Len(log) : log[i].method = "POST"}
    IN  IF match = {}
        THEN /\ IsRaise("SessionException", "invalid size", 0)
             /\ posts = {}
        ELSE /\ posts = {2}
             /\ log[2].json[1].size_id = table[first].id
             /\ (result.kind = "return" /\ result.value = TRUE)
                  <=> (log[2].status = 200 /\ log[2].data = <<TRUE>>)

\* ----------------------------------------------------------------- C11
\* C11: every request a client issues goes through a proxy of its proxy
\* list when it has one, and through no proxy when it has none.
C11_ProxyPerCall ==
  \A i \in 1 .. Len(log) :
    log[i].self \in Clients =>
      LET proxy_list == clients[log[i].self].proxy_list
      IN  IF proxy_list = None
          THEN log[i].proxies = None
          ELSE \E j \in 1 .. Len(proxy_list) : log[i].proxies = proxy_list[j]

\* ----------------------------------------------------------------- C12
\* C12: a page request answered with a status other than 200 ends the
\* paginated call: the call has raised and returned nothing, and the only
\* request after the failed one is the single profile probe of a 401/404.
C12_FailedPageAborts ==
  \A i \in 1 .. Len(log) :
    (log[i].page > 0 /\ log[i].status # 200) =>
      /\ frame.pc = "done"
      /\ result.kind = "raise"
      /\ result.value = None
      /\ \A j \in (i + 1) .. Len(log) :
           /\ j = i + 1
           /\ IsProbe(log[j])
           /\ log[i].status \in {401, 404}

\* C12's case: page 1 brought items and announced two pages, page 2 is
\* answered 401 and probed
C12_Witness ==
  /\ frame.op = "get_current_listings"
  /\ Len(AllPageLog) = 2
  /\ AllPageLog[1].data # <<>>
  /\ AllPageLog[2].status = 401
  /\ Len(log) = 3
  /\ IsProbe(log[3])
  /\ result.kind = "raise"

\* ----------------------------------------------------------------- C13
\* C13: in every variant get_product_info returns, oos is true iff the price
\* is null, and the price is null iff the size entry's prices array is empty,
\* else the integer of its first price entry.
C13_VariantStock ==
  (frame.op = "get_product_info" /\ frame.pc = "done" /\ result.kind = "return") =>
    LET sizes == log[1].data[1].sizes
        variants == IF result.value.variants = <<>> THEN <<>> ELSE result.value.variants[1]
    IN  /\ Len(variants) = Len(sizes)
        /\ \A k \in 1 .. Len(sizes) :
             /\ variants[k].oos <=> (variants[k].price = <<>>)
             /\ (variants[k].price = <<>>) <=> (sizes[k].prices = <<>>)
             /\ sizes[k].prices # <<>> =>
                  variants[k].price
                    = <<parse_int_text(sizes[k].prices[1].formatted_amount)>>

\* ----------------------------------------------------------------- C14
CatalogLog == SelectSeq(log, LAMBDA e : e.path = "/shop/catalog/products")
MappedItems == SelectSeq(frame.all_data, LAMBDA p : ~Skipped(frame.op, p))
HasProductsSegment(image) ==
  \E i \in 2 .. (Len(image) - 2) : image[i] = "products"
LookedUp == SelectSeq(MappedItems, LAMBDA p : ~HasProductsSegment(p.baseproduct.image_url))
\* the number of the items before the j-th that need a lookup
LookupsBefore(j) ==
  Cardinality({k \in 1 .. (j - 1) : ~HasProductsSegment(MappedItems[k].baseproduct.image_url)})

\* C14: in a returned paginated call, an item whose image URL has
\* '/products/<segment>/' takes that segment as its sku with no request; each
\* other item costs exactly one catalog lookup, keyed by the item's
\* baseproduct id, whose answer is the record's sku.
C14_SkuDerivation ==
  (frame.pc = "done" /\ result.kind = "return"
     /\ frame.op \in {"get_current_listings", "get_history_sales", "get_current_sales",
                      "get_shipping_products"}) =>
    /\ Len(CatalogLog) = Len(LookedUp)
    /\ \A k \in 1 .. Len(LookedUp) : CatalogLog[k].id = LookedUp[k].baseproduct.id
    /\ Len(result.value) = Len(MappedItems)
    /\ \A j \in 1 .. Len(MappedItems) :
         LET image == MappedItems[j].baseproduct.image_url
         IN  /\ result.value[j].id = MappedItems[j].baseproduct.id
             /\ IF HasProductsSegment(image)
                THEN result.value[j].sku = _image_to_sku(image)[1]
                ELSE result.value[j].sku = CatalogLog[LookupsBefore(j) + 1].data[1].sku

\* ----------------------------------------------------------------- C15
\* C15: session state is per client: a step of a call on one client leaves
\* the header map of every other client as it was (so a client on which no
\* login ran has no Authorization entry and no locale override).
C15_PerInstanceHeaders ==
  [][\A c \in Clients : c # frame'.self => headers(c)' = headers(c)]_vars

\* ----------------------------------------------------------------- C16
\* name is a digit run, alone or followed by " " and one of the three glyphs
HasSizeForm(name) ==
  \E n \in 1 .. Len(name) :
    /\ \A k \in 1 .. n : IsDigit(name[k])
    /\ SubSeq(name, n + 1, Len(name))
         \in {<<>>, <<" ", Half>>, <<" ", Third>>, <<" ", TwoThirds>>}

\* C16: get_size_id asked for parse_size(name), name being the name of an
\* entry of the size table that has one of the four forms and occurs once in
\* the table, returns that entry's id; and get_size_id returns None iff no
\* entry is named as the canonical form of the size asked for, else the id of
\* the first such entry.
C16_SizeRoundTrip ==
  (frame.op = "get_size_id" /\ frame.pc = "done" /\ log[1].data # <<>>) =>
    LET table == log[1].data[1]
        size == frame.args.size
        match == {k \in 1 .. Len(table) : table[k].name = CanonicalSize(size)}
    IN  /\ result.kind = "return"
        /\ \A k \in 1 .. Len(table) :
             ( /\ HasSizeForm(table[k].name)
               /\ \A j \in 1 .. Len(table) : table[j].name = table[k].name => j = k
               /\ size = parse_size(table[k].name) )
             => result.value = <<table[k].id>>
        /\ (result.value = <<>>) <=> (match = {})
        /\ match # {} =>
             result.value = <<table[CHOOSE k \in match : \A j \in match : k <= j].id>>

\* C16's cases: "42.5" finds the entry named with the half glyph, and (in
\* another call) a name that occurs twice gives the first entry's id
C16_Witness ==
  /\ frame.op = "get_size_id"
  /\ frame.pc = "done"
  /\ frame.args.size = Size42Half
  /\ log[1].data # <<>>
  /\ \E k \in 1 .. Len(log[1].data[1]) :
       /\ log[1].data[1][k].name = <<"4", "2", " ", Half>>
       /\ parse_size(log[1].data[1][k].name) = Size42Half
       /\ result.value = <<log[1].data[1][k].id>>

====
